---- MODULE Spec2Model ----
(***************************************************************************)
(* Static rendering in a node.js process (turbopack-node, render_static):  *)
(* pool lookup, worker acquisition, the Headers/reply exchange, and the    *)
(* diagnostic path (static_error).  Texts are sequences of tokens; a token *)
(* is one character or one fixed literal without '&', '<' or '>'.          *)
(***************************************************************************)
EXTENDS Integers, Sequences, FiniteSets, TLC

\* ---------------------------------------------------------------- bounds
NumAttempts == 2
NumWorkers == 2
MaxLen == 4

Attempts == 1..NumAttempts
Workers == 1..NumWorkers

\* Option<NodeJsOperation>::None
None == 0

\* ------------------------------------------------------- texts and inputs
AMP == <<"&", "a", "m", "p", ";">>
GT == <<"&", "g", "t", ";">>
LT == <<"&", "l", "t", ";">>

EscapeAlphabet == {"&", "<", ">", "a", ";"}

RECURSIVE StringsOfLen(_)
StringsOfLen(n) ==
  IF n = 0 THEN {<<>>}
  ELSE {<<c>> \o s : c \in EscapeAlphabet, s \in StringsOfLen(n - 1)}

EscapeInputs == UNION {StringsOfLen(n) : n \in 0..MaxLen}

AcquireErrors == {<<"<", "pool", "&", ">">>}
DataErrors == {<<"data unavailable">>}
SendErrors == {<<"broken pipe">>}
RecvErrors == {<<"channel closed">>}
TraceErrors == {<<"no source map">>}
PoolReadErrors == {<<"pool computation failed">>}
WaitErrors == {<<"process was already killed">>}
TemplateErrors == {<<"template fault">>}
WorkerErrorTexts == {<<"<", "b", ">", "&", "gen.js:1">>}

StatusCodes == {200, 404}
Pair1 == <<"a", "1">>
Pair2 == <<"b", "2">>
HeaderLists == {<<Pair1, Pair2>>}
Bodies == {<<"<", "&">>}
RewritePaths == {<<"/", "<">>}
ExitCodes == {0}

\* RenderData of attempt a (render/mod.rs RenderData): one request per attempt
RenderData(a) == [path |-> a]

\* ----------------------------------------------------- protocol messages
\* RenderStaticOutgoingMessage::Headers { data }
HeadersMessage(d) == [kind |-> "headers", data |-> d]

NoMessage ==
  [kind |-> "none", path |-> <<>>, status_code |-> 0, headers |-> <<>>,
   body |-> <<>>, error |-> <<>>, re |-> [path |-> 0]]

\* RenderStaticIncomingMessage (re: the request the worker answers)
RewriteMessage(p, d) == [NoMessage EXCEPT !.kind = "rewrite", !.path = p, !.re = d]
ResponseMessage(s, h, b, d) ==
  [NoMessage EXCEPT !.kind = "response", !.status_code = s % 65536,
                    !.headers = h, !.body = b, !.re = d]
ErrorMessage(e, d) == [NoMessage EXCEPT !.kind = "error", !.error = e, !.re = d]
MalformedMessage(d) == [NoMessage EXCEPT !.kind = "malformed", !.re = d]

IncomingMessages(d) ==
  {RewriteMessage(p, d) : p \in RewritePaths}
  \cup {ResponseMessage(s, h, b, d) : s \in StatusCodes, h \in HeaderLists, b \in Bodies}
  \cup {ErrorMessage(e, d) : e \in WorkerErrorTexts}
  \cup {MalformedMessage(d)}

\* ------------------------------------------------------------ StaticResult
NoResult ==
  [kind |-> "None", content |-> <<>>, status_code |-> 0, headers |-> <<>>,
   target |-> <<>>, error |-> <<>>]

\* StaticResultVc::content
StaticResultVc_content(content, status_code, headers) ==
  [NoResult EXCEPT !.kind = "Content", !.content = content,
                   !.status_code = status_code % 65536, !.headers = headers]

\* StaticResultVc::rewrite
StaticResultVc_rewrite(rewrite) ==
  [NoResult EXCEPT !.kind = "Rewrite", !.target = rewrite]

\* Err(..) returned by render_static
HardFailure(err) == [NoResult EXCEPT !.kind = "Err", !.error = err]

\* RewriteBuilder::new(path).build()
RewriteBuilder_build(path) == path

\* FileContent::Content(File::from(body)).into()
FileContent_from(body) == body

\* HeaderListVc::cell / HeaderListVc::empty
HeaderListVc_cell(headers) == headers
HeaderListVc_empty == <<>>

\* ------------------------------------------------------------ error values
\* anyhow::Error as its chain of causes, outermost first
Error(text) == <<text>>
Context(err, text) == <<text>> \o err

RECURSIVE Causes(_)
Causes(chain) ==
  IF chain = <<>> THEN <<>>
  ELSE <<"\n- ">> \o Head(chain) \o Causes(Tail(chain))

\* format!("{}", PrettyPrintError(&error))
PrettyPrintError(chain) ==
  IF Len(chain) <= 1 THEN Head(chain)
  ELSE Head(chain) \o <<"\n\nCaused by:">> \o Causes(Tail(chain))

\* trace_stack: generated-code positions become original source positions
trace_stack(text) ==
  [i \in DOMAIN text |-> IF text[i] = "gen.js:1" THEN "orig.ts:7" ELSE text[i]]

\* ------------------------------------------------------------ ExitStatus
\* Option<ExitStatus>::None
NoStatus == [kind |-> "None", code |-> 0]
\* what wait_or_kill resolves to: exited with a code, or killed (SIGKILL)
ExitStatuses ==
  {[kind |-> "exit", code |-> c] : c \in ExitCodes}
  \cup {[kind |-> "signal", code |-> 9]}

\* impl Display for ExitStatus
StatusDisplay(st) ==
  IF st.kind = "exit" THEN <<"exit status: ", ToString(st.code)>>
  ELSE <<"signal: ", ToString(st.code)>>

\* ExitStatus::code as Option<i32>
StatusCode(st) == IF st.kind = "exit" THEN <<st.code>> ELSE <<>>

\* ------------------------------------------------------------ HTML escape
RECURSIVE Replace(_, _, _)
\* str::replace(char, &str)
Replace(s, c, r) ==
  IF s = <<>> THEN <<>>
  ELSE (IF Head(s) = c THEN r ELSE <<Head(s)>>) \o Replace(Tail(s), c, r)

\* variant: '>' is replaced before '&'
EscapeGtFirst(s) == Replace(Replace(Replace(s, ">", GT), "&", AMP), "<", LT)

\* .replace('&', "&amp;").replace('>', "&gt;").replace('<', "&lt;")
Escape(s) == Replace(Replace(Replace(s, "&", AMP), ">", GT), "<", LT)

StatusLine == "\n\nStatus: "
NextData == "<script id=\"__NEXT_DATA__\" type=\"application/json\">{ \"props\": {} }</script>"
ErrorTitle == "Error rendering page"

\* variant: the status line is appended whether or not a status was resolved
PageMessageAlways(text, st) == Escape(text) \o <<StatusLine>> \o StatusDisplay(st)

\* the process was killed or exited with a code other than 0
Abnormal(st) == st.kind = "signal" \/ (st.kind = "exit" /\ st.code # 0)

\* variant: the status line is appended only for an abnormal termination
PageMessageAbnormalOnly(text, st) ==
  Escape(text) \o (IF Abnormal(st) THEN <<StatusLine>> \o StatusDisplay(st) ELSE <<>>)

\* message: escaped text plus the optional status line
PageMessage(text, st) ==
  Escape(text) \o (IF st.kind = "None" THEN <<>> ELSE <<StatusLine>> \o StatusDisplay(st))

\* error_html_body(status_code, title, details)
error_html_body(code, title, details) ==
  <<"<h1>", ToString(code), "</h1>", "<h2>", title, "</h2>", "<pre>">> \o details \o <<"</pre>">>

\* body of the diagnostic page
DiagnosticBody(text, st) ==
  <<NextData>> \o error_html_body(500, ErrorTitle, PageMessage(text, st))

\* fallback_page.with_body(body).content()
with_body(body) == <<"<!DOCTYPE html>", "<body>">> \o body \o <<"</body>">>

\* variant: the Issue carries the message of the page
RenderingIssueOfPage(a, text, st) ==
  [context |-> a, message |-> PageMessage(text, st),
   status |-> IF st.kind = "None" THEN <<>> ELSE StatusCode(st)]

\* RenderingIssue { context, message, status }
RenderingIssue(a, text, st) ==
  [context |-> a, message |-> text,
   status |-> IF st.kind = "None" THEN <<>> ELSE StatusCode(st)]

\* needle occurs in hay as a contiguous run
Contains(hay, needle) ==
  \E h \in {hay} : \E n \in {needle} :
    \E i \in 0..(Len(h) - Len(n)) : \A j \in 1..Len(n) : h[i + j] = n[j]

\* ------------------------------------------------- ProcessEnvChunkItem
MaxEnv == 2

EnvNames == {<<"p">>, <<"P">>, <<"q", "\"">>}
\* values as an EmbeddableProcessEnv leaves them, and live code
EnvValues == {<<"1">>, <<"\"", "v", "\"">>, <<"f", "(", ")">>}
EnvEntries == [name : EnvNames, val : EnvValues]
\* EnvMap: entries in insertion order, no name twice
EnvMaps ==
  UNION {{m \in [1..n -> EnvEntries] :
            \A i, j \in 1..n : m[i].name = m[j].name => i = j} : n \in 0..MaxEnv}
EnvReadErrors == {<<"env unavailable">>}

\* StringifyJs: the text as a double-quoted JavaScript string literal
StringifyJs(text) ==
  <<"\"">> \o Replace(Replace(text, "\\", <<"\\", "\\">>), "\"", <<"\\", "\"">>) \o <<"\"">>

EnvPrelude == "const env = process.env = {...process.env};"

\* variant: the value goes through StringifyJs as the name does
AssignmentBothStringified(name, val) ==
  <<"env[">> \o StringifyJs(name) \o <<"] = ">> \o StringifyJs(val) \o <<";", "\n">>

\* writeln!(code, "env[{}] = {};", StringifyJs(name), val)
Assignment(name, val) ==
  <<"env[">> \o StringifyJs(name) \o <<"] = ">> \o val \o <<";", "\n">>

RECURSIVE Assignments(_)
\* for (name, val) in &*env { writeln!(..) }
Assignments(env) ==
  IF env = <<>> THEN <<>>
  ELSE Assignment(Head(env).name, Head(env).val) \o Assignments(Tail(env))

\* the inner_code of the chunk item
InnerCode(env) == <<EnvPrelude, "\n", "\n">> \o Assignments(env)

\* ------------------------------------------------------------------ state
VARIABLES
  pc,          \* position of each attempt in render_static
  operation,   \* the NodeJsOperation an attempt owns, or None
  error,       \* the anyhow::Error handed to static_error
  status,      \* static_error's `status`
  result,      \* what render_static returned
  cause,       \* the step whose failure the attempt met
  got,         \* the message the attempt received
  log,         \* the attempt's operations on its handle and its effects, in order
  issues,      \* Issues emitted by the attempt
  proc,        \* pool slots: "idle" (free to lease) or "leased"
  inbox,       \* messages sent to each process
  outbox,      \* messages each process has written
  closed,      \* the process closed its channel
  acquired,    \* pool accounting
  released,
  terminated,
  escIn,       \* input and output of the escaping of static_error
  escOut,
  escDone,
  envIn,       \* the env mapping a ProcessEnvChunkItem reads, and its content
  envOut,
  envResult,   \* "None" before content() returns, then "Ok" or "Err"
  settled,     \* the computation behind the renderer pool cell has settled
  pool         \* what each attempt read from the renderer pool cell

progVars ==
  <<pc, operation, error, status, result, cause, got, log, issues,
    proc, inbox, outbox, closed, acquired, released, terminated>>
escVars == <<escIn, escOut, escDone>>
envVars == <<envIn, envOut, envResult>>
poolVars == <<settled, pool>>
vars == <<progVars, escVars, envVars, poolVars>>

InitProgram ==
  /\ pc = [a \in Attempts |-> "lookup"]
  /\ operation = [a \in Attempts |-> None]
  /\ error = [a \in Attempts |-> <<>>]
  /\ status = [a \in Attempts |-> NoStatus]
  /\ result = [a \in Attempts |-> NoResult]
  /\ cause = [a \in Attempts |-> "none"]
  /\ got = [a \in Attempts |-> NoMessage]
  /\ log = [a \in Attempts |-> <<>>]
  /\ issues = [a \in Attempts |-> <<>>]
  /\ proc = [w \in Workers |-> "idle"]
  /\ inbox = [w \in Workers |-> <<>>]
  /\ outbox = [w \in Workers |-> <<>>]
  /\ closed = [w \in Workers |-> FALSE]
  /\ acquired = 0
  /\ released = 0
  /\ terminated = 0
  /\ settled = FALSE
  /\ pool = [a \in Attempts |-> "none"]

Init ==
  /\ InitProgram
  /\ escIn = <<>>
  /\ escOut = <<>>
  /\ escDone = FALSE
  /\ envIn = <<>>
  /\ envOut = <<>>
  /\ envResult = "None"

\* ---------------------------------------------------------------- helpers
\* the `?` of render_static: Err leaves the function, its locals are dropped
Propagate(a, err, step) ==
  /\ pc' = [pc EXCEPT ![a] = "done"]
  /\ result' = [result EXCEPT ![a] = HardFailure(err)]
  /\ cause' = [cause EXCEPT ![a] = IF cause[a] = "none" THEN step ELSE cause[a]]
  /\ status' = [status EXCEPT ![a] = NoStatus]
  /\ UNCHANGED error

\* variant: the error leaves render_static through `?`
ToStaticErrorPropagates(a, err, step) == Propagate(a, err, step)

\* Err(err) => static_error(path, err, ..)
ToStaticError(a, err, step) ==
  /\ pc' = [pc EXCEPT ![a] = "static_error"]
  /\ error' = [error EXCEPT ![a] = err]
  /\ cause' = [cause EXCEPT ![a] = step]
  /\ UNCHANGED <<result, status>>

\* pool.operation(): the processes the pool may lease
PoolOperation == {w \in Workers : proc[w] = "idle"}

\* variant: every attempt reads the channel of process 1
RecvHandleShared(a) == 1

\* the handle run_static_operation receives on: its `operation` argument
RecvHandle(a) == operation[a]

\* ---------------------------------------------------------------- actions
\* the computation behind get_renderer_pool's cell reaches its final value
PoolSettle ==
  /\ ~settled
  /\ settled' = TRUE
  /\ UNCHANGED <<progVars, escVars, envVars, pool>>

\* variant: renderer_pool.await?, a read that takes the cell as it is
PoolReadEventual(a) ==
  /\ pc[a] = "lookup"
  /\ \/ /\ pc' = [pc EXCEPT ![a] = "acquire"]
        /\ pool' = [pool EXCEPT ![a] = IF settled THEN "settled" ELSE "partial"]
        /\ UNCHANGED <<result, cause, error, status>>
     \/ /\ \E e \in PoolReadErrors : Propagate(a, Error(e), "lookup")
        /\ UNCHANGED pool
  /\ UNCHANGED <<operation, got, log, issues, proc, inbox, outbox,
                 closed, acquired, released, terminated, escVars, envVars, settled>>

\* renderer_pool.strongly_consistent().await?
PoolRead(a) ==
  /\ pc[a] = "lookup"
  /\ settled
  /\ \/ /\ pc' = [pc EXCEPT ![a] = "acquire"]
        /\ pool' = [pool EXCEPT ![a] = "settled"]
        /\ UNCHANGED <<result, cause, error, status>>
     \/ /\ \E e \in PoolReadErrors : Propagate(a, Error(e), "lookup")
        /\ UNCHANGED pool
  /\ UNCHANGED <<operation, got, log, issues, proc, inbox, outbox,
                 closed, acquired, released, terminated, escVars, envVars, settled>>

\* match pool.operation().await
Acquire(a) ==
  /\ pc[a] = "acquire"
  /\ \/ \E w \in PoolOperation :
          /\ proc' = [proc EXCEPT ![w] = "leased"]
          /\ operation' = [operation EXCEPT ![a] = w]
          /\ acquired' = acquired + 1
          /\ pc' = [pc EXCEPT ![a] = "data"]
          /\ UNCHANGED <<error, cause, result, status>>
     \/ \E e \in AcquireErrors :
          /\ ToStaticError(a, Error(e), "acquire")
          /\ UNCHANGED <<proc, operation, acquired>>
  /\ UNCHANGED <<got, log, issues, inbox, outbox, closed,
                 released, terminated, escVars, envVars, poolVars>>

\* let data = data.await?
ResolveData(a) ==
  /\ pc[a] = "data"
  /\ \/ /\ pc' = [pc EXCEPT ![a] = "send"]
        /\ UNCHANGED <<error, cause, result, status>>
     \/ \E e \in DataErrors : ToStaticError(a, Error(e), "data")
  /\ UNCHANGED <<operation, got, log, issues, proc, inbox, outbox,
                 closed, acquired, released, terminated, escVars, envVars, poolVars>>

\* variant: the Headers message is written twice
SendTwice(a) ==
  /\ pc[a] = "send"
  /\ inbox' = [inbox EXCEPT ![operation[a]] =
                 @ \o <<HeadersMessage(RenderData(a)), HeadersMessage(RenderData(a))>>]
  /\ log' = [log EXCEPT ![a] = @ \o <<"send", "send">>]
  /\ pc' = [pc EXCEPT ![a] = "recv"]
  /\ UNCHANGED <<error, cause, result, operation, status, got, issues, proc, outbox,
                 closed, acquired, released, terminated, escVars, envVars, poolVars>>

\* variant: a failed send is ignored and the reply is awaited all the same
SendFailureIgnored(a) ==
  /\ pc[a] = "send"
  /\ pc' = [pc EXCEPT ![a] = "recv"]
  /\ \/ /\ inbox' = [inbox EXCEPT ![operation[a]] = Append(@, HeadersMessage(RenderData(a)))]
        /\ log' = [log EXCEPT ![a] = Append(@, "send")]
     \/ /\ log' = [log EXCEPT ![a] = Append(@, "send_failed")]
        /\ UNCHANGED inbox
  /\ UNCHANGED <<error, cause, result, status, operation, got, issues, proc, outbox,
                 closed, acquired, released, terminated, escVars, envVars, poolVars>>

\* operation.send(Headers { data }).await.context(..)?
Send(a) ==
  /\ pc[a] = "send"
  /\ \/ /\ inbox' = [inbox EXCEPT ![operation[a]] = Append(@, HeadersMessage(RenderData(a)))]
        /\ log' = [log EXCEPT ![a] = Append(@, "send")]
        /\ pc' = [pc EXCEPT ![a] = "recv"]
        /\ UNCHANGED <<error, cause, result, status>>
     \/ \E e \in SendErrors :
          /\ ToStaticError(a, Context(Error(e), <<"sending headers to node.js process">>), "send")
          /\ log' = [log EXCEPT ![a] = Append(@, "send_failed")]
          /\ UNCHANGED inbox
  /\ UNCHANGED <<operation, got, issues, proc, outbox,
                 closed, acquired, released, terminated, escVars, envVars, poolVars>>

\* the node.js process answers the request at the head of its channel
WorkerReply(w) ==
  /\ proc[w] = "leased"
  /\ ~closed[w]
  /\ inbox[w] # <<>>
  /\ \E m \in IncomingMessages(Head(inbox[w]).data) :
       outbox' = [outbox EXCEPT ![w] = Append(@, m)]
  /\ inbox' = [inbox EXCEPT ![w] = Tail(@)]
  /\ UNCHANGED <<pc, operation, error, status, result, cause, got, log, issues,
                 proc, closed, acquired, released, terminated, escVars, envVars, poolVars>>

\* the node.js process closes its channel without answering a request
WorkerClose(w) ==
  /\ proc[w] = "leased"
  /\ ~closed[w]
  /\ inbox[w] # <<>>
  /\ outbox[w] = <<>>
  /\ closed' = [closed EXCEPT ![w] = TRUE]
  /\ UNCHANGED <<pc, operation, error, status, result, cause, got, log, issues,
                 proc, inbox, outbox, acquired, released, terminated, escVars, envVars, poolVars>>

\* variant: the handle is kept when render_static returns
ReturnLeak(a, res) ==
  /\ pc' = [pc EXCEPT ![a] = "done"]
  /\ result' = [result EXCEPT ![a] = res]
  /\ UNCHANGED <<proc, operation, released>>

\* Ok(result) => result, and `operation` dropped at the end of render_static
Return(a, res) ==
  /\ pc' = [pc EXCEPT ![a] = "done"]
  /\ result' = [result EXCEPT ![a] = res]
  /\ proc' = [proc EXCEPT ![operation[a]] = "idle"]
  /\ operation' = [operation EXCEPT ![a] = None]
  /\ released' = released + 1

\* variant: the received headers are not passed on
ResponseResultNoHeaders(m) ==
  StaticResultVc_content(FileContent_from(m.body), m.status_code, HeaderListVc_empty)

\* the Response arm of run_static_operation
ResponseResult(m) ==
  StaticResultVc_content(FileContent_from(m.body), m.status_code, HeaderListVc_cell(m.headers))

\* variant: the rewrite goes to the root
RewriteResultRoot(m) == StaticResultVc_rewrite(RewriteBuilder_build(<<"/">>))

\* the Rewrite arm of run_static_operation
RewriteResult(m) == StaticResultVc_rewrite(RewriteBuilder_build(m.path))

\* variant: a failed receive is handled as a worker Error
RecvConflated(a) ==
  /\ pc[a] = "recv"
  /\ LET w == RecvHandle(a) IN
     \/ /\ outbox[w] # <<>>
        /\ Head(outbox[w]).kind \in {"rewrite", "response"}
        /\ LET m == Head(outbox[w]) IN
           /\ outbox' = [outbox EXCEPT ![w] = Tail(@)]
           /\ got' = [got EXCEPT ![a] = m]
           /\ log' = [log EXCEPT ![a] = Append(@, "recv")]
           /\ Return(a, IF m.kind = "rewrite" THEN RewriteResult(m) ELSE ResponseResult(m))
           /\ UNCHANGED <<error, cause, status>>
     \/ /\ outbox[w] # <<>>
        /\ Head(outbox[w]).kind = "error"
        /\ outbox' = [outbox EXCEPT ![w] = Tail(@)]
        /\ got' = [got EXCEPT ![a] = Head(outbox[w])]
        /\ log' = [log EXCEPT ![a] = Append(@, "recv")]
        /\ pc' = [pc EXCEPT ![a] = "trace"]
        /\ UNCHANGED <<result, proc, operation, released, error, cause, status>>
     \/ /\ \/ outbox[w] # <<>> /\ Head(outbox[w]).kind = "malformed"
           \/ outbox[w] = <<>> /\ closed[w]
        /\ outbox' = [outbox EXCEPT ![w] = IF @ = <<>> THEN @ ELSE Tail(@)]
        /\ log' = [log EXCEPT ![a] = Append(@, "recv_failed")]
        /\ pc' = [pc EXCEPT ![a] = "trace"]
        /\ UNCHANGED <<got, proc, operation, released, result, error, cause, status>>
  /\ UNCHANGED <<issues, inbox, closed, acquired, terminated, escVars, envVars, poolVars>>

\* match operation.recv().await.context(..)? { Rewrite | Response | Error }
Recv(a) ==
  /\ pc[a] = "recv"
  /\ LET w == RecvHandle(a) IN
     \/ /\ outbox[w] # <<>>
        /\ Head(outbox[w]).kind \in {"rewrite", "response"}
        /\ LET m == Head(outbox[w]) IN
           /\ outbox' = [outbox EXCEPT ![w] = Tail(@)]
           /\ got' = [got EXCEPT ![a] = m]
           /\ log' = [log EXCEPT ![a] = Append(@, "recv")]
           /\ Return(a, IF m.kind = "rewrite" THEN RewriteResult(m) ELSE ResponseResult(m))
           /\ UNCHANGED <<error, cause, status>>
     \/ /\ outbox[w] # <<>>
        /\ Head(outbox[w]).kind = "error"
        /\ outbox' = [outbox EXCEPT ![w] = Tail(@)]
        /\ got' = [got EXCEPT ![a] = Head(outbox[w])]
        /\ log' = [log EXCEPT ![a] = Append(@, "recv")]
        /\ pc' = [pc EXCEPT ![a] = "trace"]
        /\ UNCHANGED <<result, proc, operation, released, error, cause, status>>
     \/ /\ \/ outbox[w] # <<>> /\ Head(outbox[w]).kind = "malformed"
           \/ outbox[w] = <<>> /\ closed[w]
        /\ outbox' = [outbox EXCEPT ![w] = IF @ = <<>> THEN @ ELSE Tail(@)]
        /\ log' = [log EXCEPT ![a] = Append(@, "recv_failed")]
        /\ \E e \in RecvErrors :
             ToStaticError(a, Context(Error(e), <<"receiving from node.js process">>), "recv")
        /\ UNCHANGED <<got, proc, operation, released>>
  /\ UNCHANGED <<issues, inbox, closed, acquired, terminated, escVars, envVars, poolVars>>

\* variant: the worker's message is used as it came
TraceStackSkipped(a) ==
  /\ pc[a] = "trace"
  /\ ToStaticError(a, Error(got[a].error), "worker_error")
  /\ log' = [log EXCEPT ![a] = Append(@, "trace")]
  /\ UNCHANGED <<operation, got, issues, proc, inbox, outbox,
                 closed, acquired, released, terminated, escVars, envVars, poolVars>>

\* Error(error) => bail!(trace_stack(error, ..).await?)
TraceStack(a) ==
  /\ pc[a] = "trace"
  /\ \/ /\ ToStaticError(a, Error(trace_stack(got[a].error)), "worker_error")
        /\ log' = [log EXCEPT ![a] = Append(@, "trace")]
     \/ /\ \E e \in TraceErrors : ToStaticError(a, Error(e), "worker_error")
        /\ log' = [log EXCEPT ![a] = Append(@, "trace_failed")]
  /\ UNCHANGED <<operation, got, issues, proc, inbox, outbox,
                 closed, acquired, released, terminated, escVars, envVars, poolVars>>

\* variant: the handle is dropped back to the pool without wait_or_kill
WaitOrKillSkipped(a) ==
  /\ pc[a] = "static_error"
  /\ pc' = [pc EXCEPT ![a] = "render"]
  /\ status' = [status EXCEPT ![a] = NoStatus]
  /\ IF operation[a] = None
       THEN UNCHANGED <<operation, proc, inbox, outbox, closed, released>>
       ELSE LET w == operation[a] IN
            /\ operation' = [operation EXCEPT ![a] = None]
            /\ proc' = [proc EXCEPT ![w] = "idle"]
            /\ inbox' = [inbox EXCEPT ![w] = <<>>]
            /\ outbox' = [outbox EXCEPT ![w] = <<>>]
            /\ closed' = [closed EXCEPT ![w] = FALSE]
            /\ released' = released + 1
  /\ UNCHANGED <<result, cause, error, log, terminated, got, issues, acquired,
                 escVars, envVars, poolVars>>

\* variant: the exit of the process is awaited and the process is never killed
WaitOrKillNeverKills(a) ==
  /\ pc[a] = "static_error"
  /\ IF operation[a] = None
       THEN /\ pc' = [pc EXCEPT ![a] = "render"]
            /\ status' = [status EXCEPT ![a] = NoStatus]
            /\ UNCHANGED <<result, cause, error, log, operation, proc, inbox, outbox,
                           closed, terminated>>
       ELSE LET w == operation[a] IN
            /\ closed[w]
            /\ operation' = [operation EXCEPT ![a] = None]
            /\ proc' = [proc EXCEPT ![w] = "idle"]
            /\ inbox' = [inbox EXCEPT ![w] = <<>>]
            /\ outbox' = [outbox EXCEPT ![w] = <<>>]
            /\ closed' = [closed EXCEPT ![w] = FALSE]
            /\ terminated' = terminated + 1
            /\ log' = [log EXCEPT ![a] = Append(@, "wait_or_kill")]
            /\ \E c \in ExitCodes :
                 /\ status' = [status EXCEPT ![a] = [kind |-> "exit", code |-> c]]
                 /\ pc' = [pc EXCEPT ![a] = "render"]
                 /\ UNCHANGED <<result, cause, error>>
  /\ UNCHANGED <<got, issues, acquired, released, escVars, envVars, poolVars>>

\* static_error: let status = match operation { Some => wait_or_kill().await?, None => None }
WaitOrKill(a) ==
  /\ pc[a] = "static_error"
  /\ IF operation[a] = None
       THEN /\ pc' = [pc EXCEPT ![a] = "render"]
            /\ status' = [status EXCEPT ![a] = NoStatus]
            /\ UNCHANGED <<result, cause, error, log, operation, proc, inbox, outbox,
                           closed, terminated>>
       ELSE LET w == operation[a] IN
            /\ operation' = [operation EXCEPT ![a] = None]
            /\ proc' = [proc EXCEPT ![w] = "idle"]
            /\ inbox' = [inbox EXCEPT ![w] = <<>>]
            /\ outbox' = [outbox EXCEPT ![w] = <<>>]
            /\ closed' = [closed EXCEPT ![w] = FALSE]
            /\ terminated' = terminated + 1
            /\ log' = [log EXCEPT ![a] = Append(@, "wait_or_kill")]
            /\ \/ \E st \in ExitStatuses :
                    /\ status' = [status EXCEPT ![a] = st]
                    /\ pc' = [pc EXCEPT ![a] = "render"]
                    /\ UNCHANGED <<result, cause, error>>
               \/ \E e \in WaitErrors : Propagate(a, Error(e), "wait_or_kill")
  /\ UNCHANGED <<got, issues, acquired, released, escVars, envVars, poolVars>>

\* variant: the diagnostic page is served as a success
RecoveredResultOk(content) == StaticResultVc_content(content, 200, HeaderListVc_empty)

\* StaticResultVc::content(static_error(..).await?, 500, HeaderListVc::empty())
RecoveredResult(content) == StaticResultVc_content(content, 500, HeaderListVc_empty)

\* variant: the Issue is emitted before the page is rendered
RenderErrorPageIssueFirst(a) ==
  /\ pc[a] = "render"
  /\ LET text == PrettyPrintError(error[a]) IN
     \/ /\ log' = [log EXCEPT ![a] = @ \o <<"page", "issue">>]
        /\ issues' = [issues EXCEPT ![a] = Append(@, RenderingIssue(a, text, status[a]))]
        /\ result' = [result EXCEPT ![a] =
                        RecoveredResult(with_body(DiagnosticBody(text, status[a])))]
        /\ pc' = [pc EXCEPT ![a] = "done"]
        /\ UNCHANGED <<cause, error, status>>
     \/ /\ \E e \in TemplateErrors : Propagate(a, Error(e), "render")
        /\ log' = [log EXCEPT ![a] = Append(@, "page_failed")]
        /\ issues' = [issues EXCEPT ![a] = Append(@, RenderingIssue(a, text, status[a]))]
  /\ UNCHANGED <<operation, got, proc, inbox, outbox, closed,
                 acquired, released, terminated, escVars, envVars, poolVars>>

\* static_error from the formatting of the error to html.content(), and the return
RenderErrorPage(a) ==
  /\ pc[a] = "render"
  /\ LET text == PrettyPrintError(error[a]) IN
     \/ /\ log' = [log EXCEPT ![a] = @ \o <<"page", "issue">>]
        /\ issues' = [issues EXCEPT ![a] = Append(@, RenderingIssue(a, text, status[a]))]
        /\ result' = [result EXCEPT ![a] =
                        RecoveredResult(with_body(DiagnosticBody(text, status[a])))]
        /\ pc' = [pc EXCEPT ![a] = "done"]
        /\ UNCHANGED <<cause, error, status>>
     \/ /\ \E e \in TemplateErrors : Propagate(a, Error(e), "render")
        /\ log' = [log EXCEPT ![a] = Append(@, "page_failed")]
        /\ UNCHANGED issues
  /\ UNCHANGED <<operation, got, proc, inbox, outbox, closed,
                 acquired, released, terminated, escVars, envVars, poolVars>>

Next ==
  \/ PoolSettle
  \/ \E a \in Attempts : PoolRead(a)
  \/ \E a \in Attempts : Acquire(a)
  \/ \E a \in Attempts : ResolveData(a)
  \/ \E a \in Attempts : Send(a)
  \/ \E w \in Workers : WorkerReply(w)
  \/ \E w \in Workers : WorkerClose(w)
  \/ \E a \in Attempts : Recv(a)
  \/ \E a \in Attempts : TraceStack(a)
  \/ \E a \in Attempts : WaitOrKill(a)
  \/ \E a \in Attempts : RenderErrorPage(a)

Spec == Init /\ [][Next]_vars

\* the task of an attempt is polled until it returns: neither the bounded
\* wait_or_kill nor the rendering of the page waits on anything for ever
Fairness ==
  WF_vars(\E a \in Attempts : WaitOrKill(a) \/ RenderErrorPage(a))

SpecLive == Init /\ [][Next]_vars /\ Fairness

\* ------------------------------------------------- the escaping on its own
InitEscape ==
  /\ InitProgram
  /\ escIn \in EscapeInputs
  /\ escOut = <<>>
  /\ escDone = FALSE
  /\ envIn = <<>>
  /\ envOut = <<>>
  /\ envResult = "None"

\* let mut message = error.replace(..).replace(..).replace(..)
EscapeStep ==
  /\ ~escDone
  /\ escOut' = Escape(escIn)
  /\ escDone' = TRUE
  /\ UNCHANGED <<escIn, progVars, envVars, poolVars>>

NextEscape == EscapeStep

SpecEscape == InitEscape /\ [][NextEscape]_vars

\* ------------------------------------------------- the env chunk item alone
InitEnv ==
  /\ InitProgram
  /\ escIn = <<>>
  /\ escOut = <<>>
  /\ escDone = FALSE
  /\ envIn \in EnvMaps
  /\ envOut = <<>>
  /\ envResult = "None"

\* ProcessEnvChunkItem::content
Content ==
  /\ envResult = "None"
  /\ \/ envOut' = InnerCode(envIn) /\ envResult' = "Ok"
     \/ \E e \in EnvReadErrors : envOut' = e /\ envResult' = "Err"
  /\ UNCHANGED <<envIn, progVars, escVars, poolVars>>

NextEnv == Content

SpecEnv == InitEnv /\ [][NextEnv]_vars

\* ------------------------------------------------------------ properties
Done(a) == pc[a] = "done"

Count(seq, e) == Cardinality({i \in DOMAIN seq : seq[i] = e})

\* the attempt's sends and receives, in order
Exchange(a) ==
  SelectSeq(log[a], LAMBDA e : e \in {"send", "send_failed", "recv", "recv_failed"})

ErrorsOf(texts) == {Error(e) : e \in texts}

\* the three recovered failure kinds: acquisition, communication, worker Error
RecoveredKinds == {"acquire", "send", "recv", "worker_error"}

\* the result is the status-500 diagnostic page of the attempt's error
IsDiagnostic(a) ==
  /\ result[a].kind = "Content"
  /\ result[a].status_code = 500
  /\ result[a].headers = <<>>
  /\ Contains(result[a].content, <<NextData, "<h1>", "500", "</h1>">>)
  /\ Contains(result[a].content, <<"<pre>">> \o Escape(PrettyPrintError(error[a])))

\* the attempt failed outward with the error of one of the given steps
FailedWith(a, texts) == result[a].kind = "Err" /\ result[a].error \in ErrorsOf(texts)

\* C1 as stated: every attempt that met an acquisition failure, a communication
\* failure or a worker Error returns the status-500 diagnostic Content.
C1_Original ==
  \A a \in Attempts : (Done(a) /\ cause[a] \in RecoveredKinds) => IsDiagnostic(a)

\* C1 amended: an attempt that met an acquisition failure, a communication
\* failure or a worker Error returns the status-500 diagnostic Content with an
\* empty header list, unless the diagnostic path itself fails (wait_or_kill
\* errs or the error page rendering faults); then render_static fails with
\* that later error, never with the original failure.
C1_RecoveredAs500 ==
  \A a \in Attempts :
    (Done(a) /\ cause[a] \in RecoveredKinds) =>
      \/ IsDiagnostic(a)
      \/ /\ FailedWith(a, WaitErrors \cup TemplateErrors)
         /\ result[a].error # error[a]

C1_Witness ==
  \E a, b \in Attempts :
    /\ Done(a) /\ cause[a] = "acquire" /\ IsDiagnostic(a)
    /\ Done(b) /\ cause[b] \in {"recv", "worker_error"} /\ IsDiagnostic(b)

\* C2 as stated: render_static fails outward only when rendering the
\* diagnostic page faults.
C2_Original ==
  \A a \in Attempts : result[a].kind = "Err" => FailedWith(a, TemplateErrors)

\* C2 amended: render_static fails outward only when the strongly consistent
\* pool read fails, when wait_or_kill returns an error, or when rendering the
\* diagnostic page faults; worker acquisition, request-data resolution, send,
\* receive and stack-trace remapping never make it fail outward.
C2_HardFailureSteps ==
  \A a \in Attempts :
    result[a].kind = "Err" =>
      \/ FailedWith(a, PoolReadErrors) /\ log[a] = <<>> /\ cause[a] = "lookup"
      \/ /\ FailedWith(a, WaitErrors)
         /\ log[a] # <<>> /\ log[a][Len(log[a])] = "wait_or_kill"
      \/ /\ FailedWith(a, TemplateErrors)
         /\ log[a] # <<>> /\ log[a][Len(log[a])] = "page_failed"

C2_Witness ==
  \E a \in Attempts :
    /\ FailedWith(a, TemplateErrors)
    /\ cause[a] = "data"
    /\ \E b \in Attempts : FailedWith(b, WaitErrors)

\* C3: every acquired handle is released or terminated by the time
\* render_static returns: acquisitions = releases + terminations + handles
\* still held by running attempts, and a returned attempt holds no handle.
C3_NoLeak ==
  /\ acquired = released + terminated
                + Cardinality({a \in Attempts : operation[a] # None})
  /\ \A a \in Attempts : Done(a) => operation[a] = None
  /\ Cardinality({w \in Workers : proc[w] = "leased"})
       = Cardinality({a \in Attempts : operation[a] # None})

C3_Witness ==
  /\ \A a \in Attempts : Done(a)
  /\ released >= 1
  /\ terminated >= 1
  /\ acquired = released + terminated

\* C4 as stated: every attempt sends exactly one Headers message and makes
\* exactly one receive after it.
C4_Original ==
  \A a \in Attempts :
    Done(a) => /\ Count(log[a], "send") = 1
               /\ Count(log[a], "recv") + Count(log[a], "recv_failed") = 1

\* C4 amended: an attempt sends at most one Headers message and makes at most
\* one receive, the receive only after the send has completed; an attempt that
\* received a worker message sent exactly one Headers and made exactly one
\* receive; an attempt whose acquisition, data resolution or send fails makes
\* no receive.
C4_OneExchange ==
  \A a \in Attempts :
    /\ Exchange(a) \in {<<>>, <<"send_failed">>, <<"send">>,
                        <<"send", "recv">>, <<"send", "recv_failed">>}
    /\ got[a].kind # "none" => Exchange(a) = <<"send", "recv">>
    /\ operation[a] # None =>
         Len(inbox[operation[a]]) + Len(outbox[operation[a]]) <= 1
    /\ cause[a] \in {"acquire", "data", "send"} =>
         Count(log[a], "recv") + Count(log[a], "recv_failed") = 0

C4_Witness ==
  \E a, b \in Attempts :
    /\ Done(a) /\ Exchange(a) = <<"send", "recv">> /\ result[a].kind = "Rewrite"
    /\ Done(b) /\ Exchange(b) = <<"send_failed">>

\* C5: a Response{status, headers, body} is returned as Content with the same
\* status code, the same header list and the same bytes.
C5_ResponsePassThrough ==
  \A a \in Attempts :
    (Done(a) /\ got[a].kind = "response") =>
      /\ result[a].kind = "Content"
      /\ result[a].status_code = got[a].status_code
      /\ result[a].headers = got[a].headers
      /\ result[a].content = got[a].body

C5_Witness ==
  \E a \in Attempts :
    /\ Done(a) /\ got[a].kind = "response"
    /\ got[a].status_code = 404
    /\ got[a].headers = <<Pair1, Pair2>>
    /\ got[a].body = <<"<", "&">>
    /\ result[a].kind = "Content"

\* C6: a Rewrite{path} is returned as StaticResult::Rewrite with that path;
\* no diagnostic body is built, no Issue is emitted, wait_or_kill is not called.
C6_RewritePassThrough ==
  \A a \in Attempts :
    (Done(a) /\ got[a].kind = "rewrite") =>
      /\ result[a].kind = "Rewrite"
      /\ result[a].target = got[a].path
      /\ result[a].content = <<>>
      /\ issues[a] = <<>>
      /\ Count(log[a], "page") = 0 /\ Count(log[a], "page_failed") = 0
      /\ Count(log[a], "wait_or_kill") = 0

C6_Witness ==
  \E a \in Attempts :
    /\ Done(a) /\ got[a].kind = "rewrite"
    /\ result[a].target = <<"/", "<">>
    /\ operation[a] = None
    /\ released >= 1

\* the single Issue of the attempt, when it emitted exactly one
TheIssue(a) == issues[a][1]

\* C7 as stated: if pool acquisition fails nothing is sent, received or waited
\* on, the result is status-500 Content whose message contains the error text
\* and no status line, and exactly one Issue is emitted, with no exit code.
C7_Original ==
  \A a \in Attempts :
    (Done(a) /\ cause[a] = "acquire") =>
      /\ Exchange(a) = <<>>
      /\ Count(log[a], "wait_or_kill") = 0
      /\ result[a].kind = "Content" /\ result[a].status_code = 500
      /\ Contains(result[a].content, PrettyPrintError(error[a]))
      /\ ~Contains(result[a].content, <<StatusLine>>)
      /\ Len(issues[a]) = 1
      /\ TheIssue(a).status = <<>>

\* C7 amended: if pool acquisition fails nothing is sent, received or waited
\* on; unless rendering the diagnostic page faults (then render_static fails
\* and no Issue is emitted), the result is status-500 Content whose message is
\* the HTML-escaped acquisition error text with no status line, and exactly
\* one Issue is emitted, with the unescaped text and no exit code.
C7_AcquireFailure ==
  \A a \in Attempts :
    (Done(a) /\ cause[a] = "acquire") =>
      /\ Exchange(a) = <<>>
      /\ Count(log[a], "wait_or_kill") = 0
      /\ status[a] = NoStatus
      /\ error[a] \in ErrorsOf(AcquireErrors)
      /\ \/ /\ result[a].kind = "Content" /\ result[a].status_code = 500
            /\ Contains(result[a].content,
                        <<"<pre>">> \o Escape(error[a][1]) \o <<"</pre>">>)
            /\ ~Contains(result[a].content, <<StatusLine>>)
            /\ Len(issues[a]) = 1
            /\ TheIssue(a).message = error[a][1]
            /\ TheIssue(a).status = <<>>
         \/ /\ FailedWith(a, TemplateErrors)
            /\ issues[a] = <<>>

C7_Witness ==
  \E a \in Attempts :
    /\ Done(a) /\ cause[a] = "acquire"
    /\ error[a] = Error(<<"<", "pool", "&", ">">>)
    /\ result[a].kind = "Content"
    /\ Len(issues[a]) = 1

\* C8 as stated: after a worker Error{message} the message is remapped before
\* the diagnostic path, the status-500 content contains the re-mapped message,
\* and exactly one Issue carries that message and the exit code.
C8_Original ==
  \A a \in Attempts :
    (Done(a) /\ got[a].kind = "error") =>
      /\ Count(log[a], "trace") = 1
      /\ result[a].kind = "Content" /\ result[a].status_code = 500
      /\ Contains(result[a].content, trace_stack(got[a].error))
      /\ Len(issues[a]) = 1
      /\ TheIssue(a).message = trace_stack(got[a].error)
      /\ TheIssue(a).status = StatusCode(status[a])

\* C8 amended: after a worker Error{message} the remapper is invoked before
\* the diagnostic path is entered.  If the remapper succeeds and neither
\* wait_or_kill nor the page rendering fails, the status-500 content contains
\* the HTML-escaped re-mapped message and exactly one Issue carries the
\* re-mapped message (unescaped) and the exit code of the resolved status.  If
\* the remapper fails, the page and the Issue carry the remapper's error.  If
\* wait_or_kill or the page rendering fails, render_static fails and no Issue
\* is emitted.
C8_WorkerError ==
  \A a \in Attempts :
    (Done(a) /\ got[a].kind = "error") =>
      LET text == IF Count(log[a], "trace") = 1
                    THEN trace_stack(got[a].error) ELSE error[a][1] IN
      /\ cause[a] = "worker_error"
      /\ Count(log[a], "trace") + Count(log[a], "trace_failed") = 1
      /\ Count(log[a], "trace_failed") = 1 => error[a] \in ErrorsOf(TraceErrors)
      /\ SubSeq(log[a], 1, 4) \in {<<"send", "recv", "trace", "wait_or_kill">>,
                                   <<"send", "recv", "trace_failed", "wait_or_kill">>}
      /\ \/ /\ result[a].kind = "Content" /\ result[a].status_code = 500
            /\ Contains(result[a].content, <<"<pre>">> \o Escape(text))
            /\ Len(issues[a]) = 1
            /\ TheIssue(a).message = text
            /\ TheIssue(a).status = StatusCode(status[a])
            /\ status[a] \in ExitStatuses
         \/ /\ FailedWith(a, WaitErrors \cup TemplateErrors)
            /\ issues[a] = <<>>

C8_Witness ==
  \E a \in Attempts :
    /\ Done(a) /\ got[a].kind = "error"
    /\ got[a].error = <<"<", "b", ">", "&", "gen.js:1">>
    /\ Count(log[a], "trace") = 1
    /\ result[a].kind = "Content"
    /\ Len(issues[a]) = 1 /\ TheIssue(a).status = <<0>>

\* C9: concurrent attempts hold distinct handles for as long as they hold one,
\* and the message an attempt receives is the reply to the Headers message
\* that attempt sent on its own handle.
C9_NoCrossTalk ==
  /\ \A a, b \in Attempts :
       (a # b /\ operation[a] # None) => operation[a] # operation[b]
  /\ \A a \in Attempts :
       /\ pc[a] \in {"data", "send", "recv", "trace"} =>
            (operation[a] # None /\ proc[operation[a]] = "leased")
       /\ got[a].kind # "none" => got[a].re = RenderData(a)
  /\ \A w \in Workers :
       /\ \A i \in DOMAIN inbox[w] :
            \E a \in Attempts : operation[a] = w /\ inbox[w][i].data = RenderData(a)
       /\ \A i \in DOMAIN outbox[w] :
            \E a \in Attempts : operation[a] = w /\ outbox[w][i].re = RenderData(a)

C9_Witness ==
  \E a, b \in Attempts :
    /\ a # b
    /\ operation[a] # None /\ operation[b] # None
    /\ pc[a] = "recv" /\ outbox[operation[a]] # <<>>
    /\ pc[b] = "recv" /\ outbox[operation[b]] # <<>>

\* ------------------------------------------------------ escaping properties
\* the entity of one character
Entity(c) ==
  IF c = "&" THEN AMP ELSE IF c = ">" THEN GT ELSE IF c = "<" THEN LT ELSE <<c>>

RECURSIVE SinglePass(_)
\* the per-character substitution, left to right
SinglePass(s) == IF s = <<>> THEN <<>> ELSE Entity(Head(s)) \o SinglePass(Tail(s))

\* an entity starts at position i of s
EntityAt(s, i) ==
  \E e \in {AMP, GT, LT} : i + Len(e) - 1 <= Len(s) /\ SubSeq(s, i, i + Len(e) - 1) = e

\* C10: the three sequential replacements ('&', then '>', then '<') equal the
\* single-pass per-character substitution: no raw '<' or '>' is left, every
\* '&' of the output starts a produced entity, and no produced entity is
\* escaped again (each special character adds exactly its entity's length).
C10_EscapeIsSinglePass ==
  escDone =>
    /\ escOut = SinglePass(escIn)
    /\ \A i \in DOMAIN escOut :
         /\ escOut[i] \notin {"<", ">"}
         /\ escOut[i] = "&" => EntityAt(escOut, i)
    /\ Len(escOut) = Len(escIn) + 4 * Count(escIn, "&")
                     + 3 * (Count(escIn, ">") + Count(escIn, "<"))

C10_Witness ==
  /\ escDone
  /\ Count(escIn, "&") >= 1 /\ Count(escIn, ">") >= 1 /\ Count(escIn, "<") >= 1
  /\ escIn[1] = ">"
  /\ escOut = SinglePass(escIn)

\* ------------------------------------------------------------ diagnostic path
\* C11: an attempt that entered the diagnostic path with a worker handle
\* eventually leaves it, returning the diagnostic Content or failing, whether
\* or not the process ever exits by itself (its channel still open, nothing
\* answered); wait_or_kill resolves to an exit status or to a kill.
C11_DiagnosticPathEnds ==
  \A a \in Attempts :
    (pc[a] = "static_error" /\ operation[a] # None) ~>
      (Done(a) /\ (result[a].kind = "Content" => status[a] \in ExitStatuses))

C11_Witness ==
  \E a \in Attempts :
    /\ Done(a) /\ cause[a] = "data"
    /\ Count(log[a], "wait_or_kill") = 1
    /\ status[a].kind = "signal"
    /\ result[a].kind = "Content"

\* ---------------------------------------------------------------- status line
\* the attempt returned the page built by static_error
IsPage(a) == Done(a) /\ result[a].kind = "Content" /\ Count(log[a], "page") = 1

HasStatusLine(a) == Contains(result[a].content, <<StatusLine>>)

\* C12 as stated: the page has a status line only if the worker terminated
\* abnormally, and none when it did not or when no worker was acquired.
C12_Original ==
  \A a \in Attempts : IsPage(a) => (HasStatusLine(a) <=> Abnormal(status[a]))

\* C12 amended: the page has a status line exactly when a worker was acquired
\* and wait_or_kill resolved its status, whatever that status is (a normal exit
\* with code 0 included); the line displays that status and ends the message.
\* When no worker was acquired the page has no status line.
C12_StatusLine ==
  \A a \in Attempts :
    IsPage(a) =>
      /\ HasStatusLine(a) <=> Count(log[a], "wait_or_kill") = 1
      /\ Count(log[a], "wait_or_kill") = 1 =>
           /\ status[a] \in ExitStatuses
           /\ Contains(result[a].content,
                       <<StatusLine>> \o StatusDisplay(status[a]) \o <<"</pre>">>)
      /\ cause[a] = "acquire" => (status[a] = NoStatus /\ ~HasStatusLine(a))

C12_Witness ==
  \E a \in Attempts :
    /\ IsPage(a) /\ HasStatusLine(a)
    /\ status[a] = [kind |-> "exit", code |-> 0]
    /\ Contains(result[a].content, <<StatusLine, "exit status: ", "0", "</pre>">>)

\* ------------------------------------------------------- strongly consistent
\* the attempt holds or held a handle, or has sent or tried to send Headers
Engaged(a) ==
  \/ operation[a] # None
  \/ log[a] # <<>>
  \/ pc[a] \in {"data", "send", "recv", "trace"}

Remapped(a) == Count(log[a], "trace") + Count(log[a], "trace_failed")

\* the words only a worker's Error message brings, raw or remapped
WorkerWords ==
  UNION {{t[i] : i \in DOMAIN t} \cup {trace_stack(t)[i] : i \in DOMAIN t} :
         t \in WorkerErrorTexts} \ {"&", "<", ">"}

\* the error of a failed send or receive: the context and a cause of the channel
CommunicationErrors ==
  {Context(Error(e), <<"sending headers to node.js process">>) : e \in SendErrors}
  \cup {Context(Error(e), <<"receiving from node.js process">>) : e \in RecvErrors}

\* C14: the remapper runs exactly when the received message is an Error; a
\* failed send or receive never runs it and reaches the diagnostic path with
\* the communication error, which holds no text of the worker.
C14_CommunicationIsNotError ==
  \A a \in Attempts :
    /\ IF got[a].kind = "error"
         THEN Remapped(a) = (IF pc[a] = "trace" THEN 0 ELSE 1)
         ELSE Remapped(a) = 0 /\ pc[a] # "trace"
    /\ cause[a] \in {"send", "recv"} =>
         /\ got[a].kind = "none"
         /\ error[a] \in CommunicationErrors
         /\ \A i \in DOMAIN error[a] : \A j \in DOMAIN error[a][i] :
              error[a][i][j] \notin WorkerWords
         /\ IsPage(a) =>
              \A i \in DOMAIN result[a].content : result[a].content[i] \notin WorkerWords

C14_Witness ==
  \E a \in Attempts :
    /\ IsPage(a) /\ cause[a] = "recv" /\ Remapped(a) = 0
    /\ Contains(result[a].content, <<"receiving from node.js process">>)
    /\ \E b \in Attempts : b # a /\ Remapped(b) = 1 /\ got[b].kind = "error"

\* ------------------------------------------------------------------ Issues
\* C15: an attempt emits exactly one Issue if and only if it returns the
\* status-500 diagnostic Content of a failure it recovered from; it emits none
\* when it returns the worker's Response or Rewrite, none when it fails
\* outward, and never more than one.
C15_OneIssuePerDiagnostic ==
  \A a \in Attempts :
    /\ Len(issues[a]) <= 1
    /\ Len(issues[a]) = 1 <=>
         (Done(a) /\ IsDiagnostic(a) /\ got[a].kind \notin {"response", "rewrite"})
    /\ (Done(a) /\ got[a].kind \in {"response", "rewrite"}) => issues[a] = <<>>
    /\ (Done(a) /\ result[a].kind \in {"Err", "Rewrite"}) => issues[a] = <<>>

C15_Witness ==
  /\ \E a \in Attempts : Done(a) /\ IsDiagnostic(a) /\ Len(issues[a]) = 1
  /\ \E a \in Attempts :
       /\ Done(a) /\ result[a].kind = "Err" /\ Count(log[a], "page_failed") = 1
       /\ issues[a] = <<>>

\* C16: the Issue carries the page path, the error message as it was before
\* HTML escaping and without the status line, and the numeric exit code of the
\* resolved status; the exit code is absent when no worker was acquired and
\* when the status has no numeric code (the process was killed). The message
\* of the page is the escaped text followed by the status line.
C16_IssueContent ==
  \A a \in Attempts :
    Len(issues[a]) = 1 =>
      LET msg == PrettyPrintError(error[a])
          line == IF Count(log[a], "wait_or_kill") = 1
                  THEN <<StatusLine>> \o StatusDisplay(status[a]) ELSE <<>>
      IN /\ TheIssue(a).context = RenderData(a).path
         /\ TheIssue(a).message = msg
         /\ ~Contains(TheIssue(a).message, <<StatusLine>>)
         /\ \A i \in DOMAIN msg : msg[i] \in {"&", "<", ">"} => TheIssue(a).message[i] = msg[i]
         /\ status[a].kind = "exit" => TheIssue(a).status = <<status[a].code>>
         /\ status[a].kind = "signal" => TheIssue(a).status = <<>>
         /\ cause[a] = "acquire" => TheIssue(a).status = <<>>
         /\ Contains(result[a].content, <<"<pre>">> \o Escape(msg) \o line \o <<"</pre>">>)

C16_Witness ==
  /\ \E a \in Attempts :
       /\ Len(issues[a]) = 1 /\ TheIssue(a).status = <<0>>
       /\ Contains(TheIssue(a).message, <<"<", "b", ">", "&">>)
       /\ Contains(result[a].content, LT \o <<"b">> \o GT \o AMP)
       /\ HasStatusLine(a)
  /\ \E a \in Attempts :
       Len(issues[a]) = 1 /\ status[a].kind = "signal" /\ TheIssue(a).status = <<>>

\* -------------------------------------------------------------- wait_or_kill
\* the attempt acquired a handle and run_static_operation failed on it
ExchangeFailed(a) ==
  /\ cause[a] \notin {"none", "lookup", "acquire"}
  /\ got[a].kind \notin {"response", "rewrite"}

\* the attempt returned the worker's Response or Rewrite
Served(a) == Done(a) /\ got[a].kind \in {"response", "rewrite"}

\* C17: wait_or_kill is called exactly once on a handle that was acquired and
\* whose exchange failed, and never otherwise: the worker of a Response or a
\* Rewrite goes back to the pool without it, the handle of a failed exchange
\* never goes back without it, and it comes before the page is built and the
\* Issue is emitted.
C17_WaitOrKillOnce ==
  /\ \A a \in Attempts :
       LET waits == {i \in DOMAIN log[a] : log[a][i] = "wait_or_kill"} IN
       /\ Cardinality(waits) <= 1
       /\ waits # {} => ExchangeFailed(a)
       /\ (ExchangeFailed(a) /\ pc[a] \in {"render", "done"}) => waits # {}
       /\ Served(a) => (waits = {} /\ operation[a] = None)
       /\ \A i \in waits : \A j \in DOMAIN log[a] :
            log[a][j] \in {"page", "issue", "page_failed"} => i < j
       /\ (ExchangeFailed(a) /\ Len(issues[a]) = 1) =>
            \E i \in waits : \E j \in DOMAIN log[a] : i < j /\ log[a][j] = "page"
  /\ released = Cardinality({a \in Attempts : Served(a)})
  /\ terminated =
       Cardinality({a \in Attempts : \E i \in DOMAIN log[a] : log[a][i] = "wait_or_kill"})

C17_Witness ==
  /\ \E a \in Attempts :
       /\ Done(a) /\ ExchangeFailed(a) /\ Len(issues[a]) = 1
       /\ Count(log[a], "wait_or_kill") = 1
  /\ \E a \in Attempts : Served(a) /\ Count(log[a], "wait_or_kill") = 0
  /\ released = 1 /\ terminated = 1

\* ------------------------------------------------------- order of the exchange
\* the attempt's failure was the resolution of the data or the send
FailedBeforeRecv(a) == cause[a] \in {"data", "send"}

\* the order of the exchange, common to C18 as stated and as amended
ExchangeOrder(a) ==
  /\ \A i \in DOMAIN log[a] :
       log[a][i] \in {"recv", "recv_failed"} =>
         \E j \in 1..(i - 1) : log[a][j] = "send"
  /\ pc[a] = "recv" => Exchange(a) = <<"send">>
  /\ cause[a] = "data" => Exchange(a) = <<>>
  /\ cause[a] = "send" => Exchange(a) = <<"send_failed">>
  /\ FailedBeforeRecv(a) => got[a].kind = "none"
  /\ (FailedBeforeRecv(a) /\ pc[a] \in {"render", "done"}) =>
       (Count(log[a], "wait_or_kill") = 1 /\ operation[a] = None)

\* C18 as stated: a receive is attempted only after the send succeeded; when the
\* data fails to resolve nothing is sent or received, when the send fails
\* nothing is received, and in both cases the attempt goes through wait_or_kill
\* and returns the status-500 Content.
C18_Original ==
  \A a \in Attempts :
    /\ ExchangeOrder(a)
    /\ (Done(a) /\ FailedBeforeRecv(a)) => IsDiagnostic(a)

\* C18 amended: the same order, and in both cases the attempt goes through
\* wait_or_kill and returns the status-500 Content unless wait_or_kill or the
\* rendering of the page fails, in which case render_static fails with that
\* error.
C18_SendBeforeRecv ==
  \A a \in Attempts :
    /\ ExchangeOrder(a)
    /\ (Done(a) /\ FailedBeforeRecv(a)) =>
         \/ IsDiagnostic(a) /\ HasStatusLine(a)
         \/ FailedWith(a, WaitErrors \cup TemplateErrors)

C18_Witness ==
  /\ \E a \in Attempts :
       Done(a) /\ cause[a] = "data" /\ IsDiagnostic(a) /\ log[a][1] = "wait_or_kill"
  /\ \E a \in Attempts :
       /\ Done(a) /\ cause[a] = "send" /\ FailedWith(a, WaitErrors)
       /\ log[a] = <<"send_failed", "wait_or_kill">>

\* ---------------------------------------------------------- env chunk item
RECURSIVE SplitLines(_, _)
SplitLines(s, cur) ==
  IF s = <<>> THEN (IF cur = <<>> THEN <<>> ELSE <<cur>>)
  ELSE IF Head(s) = "\n" THEN <<cur>> \o SplitLines(Tail(s), <<>>)
  ELSE SplitLines(Tail(s), Append(cur, Head(s)))

\* the lines of a text, each ended by a newline
Lines(s) == SplitLines(s, <<>>)

\* the generated code starts with the statement that re-creates process.env
\* and has one assignment per entry, in the order of the mapping
EnvShape ==
  /\ envOut[Len(envOut)] = "\n"
  /\ Len(Lines(envOut)) = Len(envIn) + 2
  /\ Lines(envOut)[1] = <<EnvPrelude>>
  /\ Lines(envOut)[2] = <<>>
  /\ Count(envOut, "env[") = Len(envIn)
  /\ \A i, j \in DOMAIN envIn : i # j => Lines(envOut)[i + 2] # Lines(envOut)[j + 2]

\* C19 as stated: the content is the fixed statement followed by exactly one
\* assignment per entry, and in each assignment both the key and the value are
\* embedded through the stringifier.
C19_Original ==
  envResult = "Ok" =>
    /\ EnvShape
    /\ \A i \in DOMAIN envIn :
         Lines(envOut)[i + 2] =
           <<"env[">> \o StringifyJs(envIn[i].name) \o <<"] = ">>
             \o StringifyJs(envIn[i].val) \o <<";">>

\* C19 amended: the content is the fixed statement followed by exactly one
\* assignment per entry (none for the empty mapping, one each for keys that
\* differ only in case); in each assignment the key is embedded through the
\* stringifier and the value is embedded as it is.
C19_EnvContent ==
  envResult = "Ok" =>
    /\ EnvShape
    /\ \A i \in DOMAIN envIn :
         Lines(envOut)[i + 2] =
           <<"env[">> \o StringifyJs(envIn[i].name) \o <<"] = ">> \o envIn[i].val \o <<";">>

C19_Witness ==
  /\ envResult = "Ok"
  /\ envIn = <<[name |-> <<"p">>, val |-> <<"f", "(", ")">>],
               [name |-> <<"P">>, val |-> <<"\"", "v", "\"">>]>>
  /\ Lines(envOut)[3] = <<"env[", "\"", "p", "\"", "] = ", "f", "(", ")", ";">>
  /\ Lines(envOut)[4] = <<"env[", "\"", "P", "\"", "] = ", "\"", "v", "\"", ";">>
====
